---- MODULE Spec2Model ----
(***************************************************************************)
(* State-machine model of the stablecoin pallet (src/src/lib.rs).         *)
(*                                                                         *)
(* Scaling.  Coins is u64, Perbill and Fixed64 have accuracy 10^9 and     *)
(* BondIndex is u16 in the source.  The model keeps the arithmetic of the *)
(* source (checked / saturating operations, truncating divisions, the     *)
(* rounding of Perbill * Coins) but runs it on scaled-down widths:        *)
(*   MaxCoins     stands for u64::MAX,                                    *)
(*   ACCURACY     stands for Perbill::ACCURACY and Fixed64's DIV,         *)
(*   BondIndexMod stands for 2^16 (the number of BondIndex values),       *)
(*   SHARE_SUPPLY stands for the 100 shares of the single founder; it is  *)
(*                small enough that hand-outs below and above the share   *)
(*                count both occur.                                        *)
(* The pallet's configuration (trait Trait) is instantiated with small    *)
(* values in the same proportions as the test runtime of the source.      *)
(*                                                                         *)
(* History variables.  `last` records the operation that produced the     *)
(* current state (its name, arguments, result, the events it deposited    *)
(* and the bids a contraction popped), `pre` the persisted stores right before that operation,    *)
(* and `fate` what has happened to every bond minted so far.  Bonds carry *)
(* a serial number `id` (their insertion order) for the same purpose.     *)
(* None of them is read by the operations.                                 *)
(***************************************************************************)
EXTENDS Integers, Sequences, FiniteSets, TLC

(* ----------------------------- bounds --------------------------------- *)
NumAccounts == 3
MaxBlock == 6
MaxExtrinsics == 4
MaxCoins == 16
ACCURACY == 10
BondIndexMod == 3

(* ------------------------ configuration (Trait) ----------------------- *)
(* The pallet is generic over its configuration.  runtime names the       *)
(* runtime it is built into and never changes: "small" is the scaled      *)
(* configuration above, "test" the configuration of the source's test     *)
(* runtime (impl Trait for Test), with Coins wide enough for its amounts  *)
(* and prices kept to one part in a thousand, "live" the scaled           *)
(* configuration with BaseUnit 2 and half the range of Coins.             *)
VARIABLE runtime

TestRuntime == runtime = "test"
LiveRuntime == runtime = "live"

BaseUnit == IF TestRuntime THEN 1000 ELSE IF LiveRuntime THEN 2 ELSE 4
MaximumBids == IF TestRuntime THEN 10 ELSE 2
ExpirationPeriod == IF TestRuntime THEN 100 ELSE 4
AdjustmentFrequency == 2
InitialSupply == IF TestRuntime THEN 100 * BaseUnit ELSE 3 * BaseUnit
MinimumSupply_none == 0 * BaseUnit

MinimumSupply == BaseUnit

SHARE_SUPPLY == 3

(* The largest value of Coins, the accuracy of Perbill and Fixed64, and   *)
(* the number of accounts, in the runtime at hand.                        *)
CoinsMax == IF TestRuntime THEN 1000000 ELSE IF LiveRuntime THEN MaxCoins \div 2 ELSE MaxCoins
PerbillAccuracy == IF TestRuntime THEN 1000 ELSE ACCURACY
AccountCount == IF TestRuntime THEN 10 ELSE NumAccounts

Accounts == 1 .. AccountCount

Min(a, b) == IF a < b THEN a ELSE b
Max(a, b) == IF a > b THEN a ELSE b

(* u64 arithmetic on the scaled width *)
CheckedAddOk_unchecked(a, b) == TRUE

CheckedAddOk(a, b) == a + b <= CoinsMax
CheckedSubOk(a, b) == a >= b
SaturatingAdd(a, b) == Min(CoinsMax, a + b)
SaturatingSub(a, b) == Max(0, a - b)
SaturatingMul(a, b) == Min(CoinsMax, a * b)

(* ------------------------------ Perbill ------------------------------- *)
(* A Perbill is its number of parts, 0 .. ACCURACY. *)
FromPercent(x) == (Min(x, 100) * PerbillAccuracy) \div 100
MINIMUM_BOND_PRICE_none == FromPercent(0)

MINIMUM_BOND_PRICE == FromPercent(10)

(* Perbill * Coins: (b / max) * part + round((b % max) * part / max),     *)
(* rounding up when the remainder exceeds max / 2.                         *)
PerbillMul(part, b) ==
    LET m == (b % PerbillAccuracy) * part
    IN  (b \div PerbillAccuracy) * part + (m \div PerbillAccuracy)
          + (IF m % PerbillAccuracy > PerbillAccuracy \div 2 THEN 1 ELSE 0)

(* ------------------------------- Bid ---------------------------------- *)
Bid(account, price, quantity) ==
    [account |-> account, price |-> price, quantity |-> quantity]

payment(bid) == PerbillMul(bid.price, bid.quantity)

(* Bid::remove_coins: Ok(removed_quantity) with the reduced bid, or Err.  *)
(* inverse_price = ACCURACY / price as a reduced Ratio<u64>; checked_mul  *)
(* by coins overflows when the product leaves u64.                         *)
RECURSIVE Gcd(_, _)
Gcd(a, b) == IF b = 0 THEN a ELSE Gcd(b, a % b)

remove_coins_times_price(bid, coins) ==
    LET removed_quantity == PerbillMul(bid.price, coins)
    IN  IF ~CheckedSubOk(bid.quantity, removed_quantity)
        THEN [ok |-> FALSE, err |-> "Underflow", bid |-> bid, removed |-> 0]
        ELSE [ok |-> TRUE, err |-> "",
              bid |-> [bid EXCEPT !.quantity = bid.quantity - removed_quantity],
              removed |-> removed_quantity]

remove_coins_at_par(bid, coins) ==
    IF ~CheckedSubOk(bid.quantity, coins)
    THEN [ok |-> FALSE, err |-> "Underflow", bid |-> bid, removed |-> 0]
    ELSE [ok |-> TRUE, err |-> "",
          bid |-> [bid EXCEPT !.quantity = bid.quantity - coins], removed |-> coins]

remove_coins(bid, coins) ==
    LET g == Gcd(PerbillAccuracy, bid.price)
        numer == PerbillAccuracy \div g
        denom == bid.price \div g
        \* Ratio::checked_mul cross-reduces first: gcd(numer, 1), gcd(coins, denom)
        g2 == Gcd(coins, denom)
        prod == numer * (coins \div g2)
        removed_quantity == prod \div (denom \div g2)
    IN  IF prod > CoinsMax
        THEN [ok |-> FALSE, err |-> "Overflow", bid |-> bid, removed |-> 0]
        ELSE IF ~CheckedSubOk(bid.quantity, removed_quantity)
        THEN [ok |-> FALSE, err |-> "Underflow", bid |-> bid, removed |-> 0]
        ELSE [ok |-> TRUE, err |-> "",
              bid |-> [bid EXCEPT !.quantity = bid.quantity - removed_quantity],
              removed |-> removed_quantity]

(* ------------------------------- state -------------------------------- *)
VARIABLES
    initialized,    \* Init: bool
    shares,         \* Shares: Vec<(AccountId, u64)>
    balance,        \* Balance: map AccountId => Coins (missing key = 0)
    coin_supply,    \* CoinSupply: Coins
    bonds,          \* Bonds: map BondIndex => Bond
    bonds_range,    \* BondsRange: (BondIndex, BondIndex) = (start, end)
    bond_bids,      \* BondBids: Vec<Bid>
    block_number,   \* system::Module::block_number()
    tx_count,       \* extrinsics dispatched successfully so far
    next_bond_id,   \* history: serial number of the next bond minted
    fate,           \* history: fate[id] of every bond minted so far
    last,           \* history: the operation that led to this state
    pre             \* history: the stores before that operation

stores == <<initialized, shares, balance, coin_supply, bonds, bonds_range, bond_bids>>
vars == <<initialized, shares, balance, coin_supply, bonds, bonds_range, bond_bids,
          block_number, tx_count, next_bond_id, fate, last, pre, runtime>>

Snapshot ==
    [initialized |-> initialized, shares |-> shares, balance |-> balance,
     coin_supply |-> coin_supply, bonds |-> bonds, bonds_range |-> bonds_range,
     bond_bids |-> bond_bids, fate |-> fate]

NoBond == [account |-> 0, payout |-> 0, expiration |-> 0, id |-> 0]

Bond(account, payout, expiration, id) ==
    [account |-> account, payout |-> payout, expiration |-> expiration, id |-> id]

(* --------------------------- ring buffer ------------------------------ *)
(* A transient ring buffer over (BondsRange, Bonds): rb = [range, map].   *)
RingIsEmpty(rb) == rb.range[1] = rb.range[2]

RingPush_without_advance(rb, x) ==
    [range |-> <<rb.range[1], (rb.range[2] + 1) % BondIndexMod>>,
     map |-> [rb.map EXCEPT ![rb.range[2]] = x]]

RingPush(rb, x) ==
    LET start == rb.range[1]
        end == rb.range[2]
        new_end == (end + 1) % BondIndexMod
        new_start == IF new_end = start THEN (start + 1) % BondIndexMod ELSE start
    IN  [range |-> <<new_start, new_end>>, map |-> [rb.map EXCEPT ![end] = x]]

RingPushFront(rb, x) ==
    LET new_start == (rb.range[1] + BondIndexMod - 1) % BondIndexMod
    IN  [range |-> <<new_start, rb.range[2]>>, map |-> [rb.map EXCEPT ![new_start] = x]]

RingHead(rb) == rb.map[rb.range[1]]

RingPop(rb) ==
    [range |-> <<(rb.range[1] + 1) % BondIndexMod, rb.range[2]>>,
     map |-> [rb.map EXCEPT ![rb.range[1]] = NoBond]]

RingLen(rb) == (rb.range[2] + BondIndexMod - rb.range[1]) % BondIndexMod

(* The occupied range read from start to end: the BondQueue, head first. *)
RingSeq(rb) ==
    [i \in 1 .. RingLen(rb) |-> rb.map[(rb.range[1] + i - 1) % BondIndexMod]]

BondQueue == RingSeq([range |-> bonds_range, map |-> bonds])

(* ------------------------------ balances ------------------------------ *)
add_balance(bal, account, amount) ==
    [bal EXCEPT ![account] = SaturatingAdd(bal[account], amount)]

remove_balance_ok(bal, account, amount) == CheckedSubOk(bal[account], amount)
remove_balance(bal, account, amount) ==
    [bal EXCEPT ![account] = bal[account] - amount]

(* ------------------------------- bids --------------------------------- *)
InsertAt(seq, index, x) ==
    \* Vec::insert(index, x) with a 0-based index
    SubSeq(seq, 1, index) \o <<x>> \o SubSeq(seq, index + 1, Len(seq))

binary_search_by_reversed(bids, price) ==
    {Cardinality({j \in 1 .. Len(bids) : bids[j].price > price})}

(* slice::binary_search_by on the prices: Ok(i) for any i whose element   *)
(* compares Equal (which one is unspecified), else Err(i) with i the      *)
(* number of smaller elements; `.unwrap_or_else(|i| i)` merges the two.   *)
binary_search_by(bids, price) ==
    IF \E i \in 1 .. Len(bids) : bids[i].price = price
    THEN {i - 1 : i \in {j \in 1 .. Len(bids) : bids[j].price = price}}
    ELSE {Cardinality({j \in 1 .. Len(bids) : bids[j].price < price})}

(* refund_bid on a working state w = [bids, balance, events, ...] *)
refund_bid(w, bid) ==
    [w EXCEPT !.balance = add_balance(w.balance, bid.account, payment(bid)),
              !.events = Append(w.events, <<"RefundedBid", bid.account, payment(bid)>>)]

InsertWithoutTruncate(w, bid, index) ==
    [w EXCEPT !.bids = InsertAt(w.bids, index, bid)]

InsertAndTruncate_highest(w, bid, index) ==
    LET inserted == [w EXCEPT !.bids = InsertAt(w.bids, index, bid)]
    IN  IF Len(inserted.bids) > MaximumBids
        THEN refund_bid([inserted EXCEPT !.bids = SubSeq(inserted.bids, 1, Len(inserted.bids) - 1)],
                        inserted.bids[Len(inserted.bids)])
        ELSE inserted

(* bids.insert(index, bid), then the truncation to MaximumBids *)
InsertAndTruncate(w, bid, index) ==
    LET inserted == [w EXCEPT !.bids = InsertAt(w.bids, index, bid)]
    IN  IF Len(inserted.bids) > MaximumBids
        THEN refund_bid([inserted EXCEPT !.bids = Tail(inserted.bids)], inserted.bids[1])
        ELSE inserted

(* _add_bid_to: the set of outcomes, one per admissible search result *)
add_bid_to(w, bid) ==
    {InsertAndTruncate(w, bid, index) : index \in binary_search_by(w.bids, bid.price)}

cancel_for_strictly_below(sel, bid) ==
    bid.account = sel.who /\ (sel.all \/ bid.price < sel.price)

(* The two closures passed to cancel_bids: sel = [who, all, price].       *)
(*   cancel_bids_at_or_below: bid.account == who && bid.price <= price    *)
(*   cancel_all_bids:         bid.account == who                          *)
cancel_for(sel, bid) ==
    bid.account = sel.who /\ (sel.all \/ bid.price <= sel.price)

(* cancel_bids: retain the bids where cancel_for is false, refund the rest in order *)
RECURSIVE cancel_loop(_, _, _)
cancel_loop(w, rest, sel) ==
    IF rest = <<>> THEN w
    ELSE IF cancel_for(sel, Head(rest))
         THEN cancel_loop(refund_bid(w, Head(rest)), Tail(rest), sel)
         ELSE cancel_loop([w EXCEPT !.bids = Append(w.bids, Head(rest))], Tail(rest), sel)

cancel_bids(bids, bal, sel) ==
    cancel_loop([bids |-> <<>>, balance |-> bal, events |-> <<>>], bids, sel)

(* --------------------------- hand_out_coins --------------------------- *)
(* A share is <<account, num_shares>>. *)
RECURSIVE SumShares(_)
SumShares(sh) == IF sh = <<>> THEN 0 ELSE Head(sh)[2] + SumShares(Tail(sh))

extra_payout_never(pay_extra, is_in_first_mod_len) == 0

(* let extra_payout = if pay_extra && is_in_first_mod_len { 1 } else { 0 } *)
extra_payout_of(pay_extra, is_in_first_mod_len) ==
    IF pay_extra /\ is_in_first_mod_len THEN 1 ELSE 0

(* The payout loop: h = [balance, amount_payed], i the 0-based index. *)
RECURSIVE hand_out_loop(_, _, _, _, _, _)
hand_out_loop(h, sh, i, amount, coins_per_share, pay_extra) ==
    IF i >= Len(sh) \/ h.amount_payed >= amount THEN h
    ELSE LET acc == sh[i + 1][1]
             num_shares == sh[i + 1][2]
             max_payout == amount - h.amount_payed
             is_in_first_mod_len == i < amount % Len(sh)
             extra_payout == extra_payout_of(pay_extra, is_in_first_mod_len)
             payout == Min(max_payout, num_shares * coins_per_share + extra_payout)
         IN  hand_out_loop([balance |-> add_balance(h.balance, acc, payout),
                            amount_payed |-> h.amount_payed + payout],
                           sh, i + 1, amount, coins_per_share, pay_extra)

(* hand_out_coins(shares, amount, coin_supply) on the balances `bal`.     *)
(* The debug_assert!s are compiled out (release build).  An empty share   *)
(* list divides by zero: the call panics.                                  *)
hand_out_coins(sh, amount, supply, bal) ==
    IF ~CheckedAddOk(supply, amount)
    THEN [ok |-> FALSE, err |-> "CoinSupplyOverflow", balance |-> bal,
          coin_supply |-> supply, amount_payed |-> 0]
    ELSE IF SumShares(sh) = 0
    THEN [ok |-> FALSE, err |-> "panic", balance |-> bal,
          coin_supply |-> supply, amount_payed |-> 0]
    ELSE LET share_supply == SumShares(sh)
             len == Len(sh)
             coins_per_share == Max(1, amount \div share_supply)
             pay_extra == coins_per_share * len < amount
             h == hand_out_loop([balance |-> bal, amount_payed |-> 0],
                                sh, 0, amount, coins_per_share, pay_extra)
         IN  [ok |-> TRUE, err |-> "", balance |-> h.balance,
              coin_supply |-> supply + amount, amount_payed |-> h.amount_payed]

(* ------------------------------- bonds -------------------------------- *)
new_bond_without_period(account, payout, block) == Bond(account, payout, block, 0)

(* new_bond: the serial number is given when the bond is pushed. *)
new_bond(account, payout, block) ==
    Bond(account, payout, block + ExpirationPeriod, 0)

(* push_bonds on g = [rb, next_id, fate]; a push onto a full ring leaves  *)
(* the oldest bond behind.                                                 *)
RECURSIVE push_bonds(_, _)
push_bonds(g, bonds_to_push) ==
    IF bonds_to_push = <<>> THEN g
    ELSE LET b == Head(bonds_to_push)
             full == (g.rb.range[2] + 1) % BondIndexMod = g.rb.range[1]
             fate1 == IF full THEN [g.fate EXCEPT ![RingHead(g.rb).id] = "dropped"]
                      ELSE g.fate
         IN  push_bonds([rb |-> RingPush(g.rb, [b EXCEPT !.id = g.next_id]),
                         next_id |-> g.next_id + 1,
                         fate |-> Append(fate1, "queued")],
                        Tail(bonds_to_push))

(* --------------------------- contract_supply -------------------------- *)
pop_lowest(bids) == [bid |-> Head(bids), bids |-> Tail(bids)]

(* bids.pop(): the last bid of the vector, and the vector without it *)
pop(bids) == [bid |-> bids[Len(bids)], bids |-> SubSeq(bids, 1, Len(bids) - 1)]

(* One iteration of the while loop on                                      *)
(* w = [bids, remaining, new_bonds, balance, events, popped]: the set of   *)
(* outcomes.  popped is history: every bid taken by pop, the book it left  *)
(* behind at that moment, and whether the bid was refunded.                *)
contract_step(w, block) ==
    LET bid == pop(w.bids).bid
        refunds == payment(bid) >= w.remaining /\ ~remove_coins(bid, w.remaining).ok
        popped == [w EXCEPT !.bids = pop(w.bids).bids,
                            !.popped = Append(@, [bid |-> bid, book |-> pop(w.bids).bids,
                                                  refunded |-> refunds])]
    IN  IF payment(bid) >= w.remaining
        THEN LET r == remove_coins(bid, w.remaining)
             IN  IF ~r.ok
                 THEN {refund_bid(popped, bid)}
                 ELSE LET minted == [popped EXCEPT !.new_bonds =
                                       Append(@, new_bond(r.bid.account, r.removed, block))]
                          readded == IF r.bid.quantity > 0
                                     THEN add_bid_to(minted, r.bid)
                                     ELSE {minted}
                      IN  {[x EXCEPT !.remaining = 0] : x \in readded}
        ELSE {[popped EXCEPT !.new_bonds = Append(@, new_bond(bid.account, bid.quantity, block)),
                             !.remaining = @ - payment(bid)]}

RECURSIVE contract_loop(_, _)
contract_loop(w, block) ==
    IF w.remaining > 0 /\ w.bids # <<>>
    THEN UNION {contract_loop(x, block) : x \in contract_step(w, block)}
    ELSE {w}

NewBondEvents(new_bonds) ==
    [i \in 1 .. Len(new_bonds) |->
        <<"NewBond", new_bonds[i].account, new_bonds[i].payout, new_bonds[i].expiration>>]

(* A store record S holds the persisted stores and the history of bonds:  *)
(* [initialized, shares, balance, coin_supply, rb, bond_bids, next_id,    *)
(*  fate].  An operation yields results [ok, err, events, S].              *)
Result(ok, err, events, S) == [ok |-> ok, err |-> err, events |-> events, S |-> S]

supply_underflows_unchecked_floor(supply, amount) == ~CheckedSubOk(supply, amount)

(* The underflow check of contract_supply: checked_sub, then the floor. *)
supply_underflows(supply, amount) ==
    ~CheckedSubOk(supply, amount) \/ supply - amount < MinimumSupply

burned_whole_amount(amount, remaining) == amount

(* let burned = amount.saturating_sub(remaining) *)
burned_coins(amount, remaining) == SaturatingSub(amount, remaining)

contract_supply(S, supply, amount, block) ==
    IF supply_underflows(supply, amount)
    THEN {Result(FALSE, "CoinSupplyUnderflow", <<>>, S)}
    ELSE {LET burned == burned_coins(amount, w.remaining)
              new_supply == SaturatingSub(supply, burned)
              g == push_bonds([rb |-> S.rb, next_id |-> S.next_id, fate |-> S.fate],
                              w.new_bonds)
          IN  Result(TRUE, "",
                     w.events \o NewBondEvents(w.new_bonds) \o <<<<"ContractedSupply", burned>>>>,
                     [S EXCEPT !.balance = w.balance, !.coin_supply = new_supply,
                               !.bond_bids = w.bids, !.rb = g.rb,
                               !.next_id = g.next_id, !.fate = g.fate,
                               !.popped = w.popped])
          : w \in contract_loop([bids |-> S.bond_bids, remaining |-> amount,
                                 new_bonds |-> <<>>, balance |-> S.balance,
                                 events |-> <<>>, popped |-> <<>>], block)}

(* ---------------------------- expand_supply --------------------------- *)
bond_has_expired_after(block, expiration) == block > expiration

(* if block_number() >= expiration: the bond has expired *)
bond_has_expired(block, expiration) == block >= expiration

partly_paid_in_vain(b, remaining) == b

(* The bond pushed back to the front after a partial payment:             *)
(* let payout = payout - remaining                                         *)
partly_paid(b, remaining) == [b EXCEPT !.payout = b.payout - remaining]

(* The while-let loop on w = [remaining, rb, balance, events, fate]. *)
RECURSIVE expand_loop(_, _)

stop_after_expired(w, block) == w

(* `continue` after an expired bond was discarded: on to the next bond *)
continue_after_expired(w, block) == expand_loop(w, block)

expand_loop(w, block) ==
    IF w.remaining > 0 /\ ~RingIsEmpty(w.rb)
    THEN LET b == RingHead(w.rb)
             popped == [w EXCEPT !.rb = RingPop(w.rb)]
         IN  IF bond_has_expired(block, b.expiration)
             THEN continue_after_expired([popped EXCEPT
                      !.events = Append(@, <<"BondExpired", b.account, b.payout>>),
                      !.fate[b.id] = "expired"], block)
             ELSE IF b.payout <= w.remaining
             THEN expand_loop([popped EXCEPT
                      !.remaining = @ - b.payout,
                      !.balance = add_balance(@, b.account, b.payout),
                      !.events = Append(@, <<"BondFulfilled", b.account, b.payout>>),
                      !.fate[b.id] = "paid"], block)
             ELSE [popped EXCEPT
                      !.balance = add_balance(@, b.account, w.remaining),
                      !.rb = RingPushFront(@, partly_paid(b, w.remaining)),
                      !.events = Append(@, <<"BondPartiallyFulfilled", b.account,
                                                b.payout - w.remaining>>)]
    ELSE w

new_supply_ignoring_remaining(supply, amount, remaining) == supply + amount

(* let new_supply = coin_supply + amount - remaining *)
new_supply_after_bonds(supply, amount, remaining) == supply + amount - remaining

expand_supply(S, supply, amount, block) ==
    IF ~CheckedAddOk(supply, amount)
    THEN Result(FALSE, "CoinSupplyOverflow", <<>>, S)
    ELSE LET w == expand_loop([remaining |-> amount, rb |-> S.rb, balance |-> S.balance,
                               events |-> <<>>, fate |-> S.fate], block)
             new_supply == new_supply_after_bonds(supply, amount, w.remaining)
             S1 == [S EXCEPT !.rb = w.rb, !.balance = w.balance, !.fate = w.fate]
             events == Append(w.events, <<"ExpandedSupply", amount>>)
         IN  IF w.remaining > 0
             THEN LET h == hand_out_coins(S.shares, w.remaining, new_supply, w.balance)
                  IN  IF h.ok
                      THEN Result(TRUE, "", events,
                                  [S1 EXCEPT !.balance = h.balance,
                                             !.coin_supply = h.coin_supply])
                      ELSE Result(FALSE, "panic", w.events, S1)
             ELSE Result(TRUE, "", events, [S1 EXCEPT !.coin_supply = new_supply])

(* ------------------------------ on block ------------------------------ *)
(* Fixed64 is its number of parts (accuracy ACCURACY). *)
Fixed64FromRational(n, d) == (n * PerbillAccuracy) \div Max(d, 1)
Fixed64FromNatural(n) == n * PerbillAccuracy

saturated_mul(fraction, n) ==
    SaturatingAdd(SaturatingMul(n, fraction \div PerbillAccuracy),
                  PerbillMul(fraction % PerbillAccuracy, n))

expand_or_contract_on_price_inverted(S, price, block) ==
    IF price = 0
    THEN {Result(FALSE, "ZeroPrice", <<>>, S)}
    ELSE IF price > BaseUnit
    THEN LET fraction == Fixed64FromRational(price, BaseUnit) - Fixed64FromNatural(1)
         IN  {expand_supply(S, S.coin_supply, saturated_mul(fraction, S.coin_supply), block)}
    ELSE IF price < BaseUnit
    THEN LET fraction == Fixed64FromRational(BaseUnit, price) - Fixed64FromNatural(1)
         IN  contract_supply(S, S.coin_supply, saturated_mul(fraction, S.coin_supply), block)
    ELSE {Result(TRUE, "", <<>>, S)}

expand_or_contract_on_price(S, price, block) ==
    IF price = 0
    THEN {Result(FALSE, "ZeroPrice", <<>>, S)}
    ELSE IF price > BaseUnit
    THEN LET fraction == Fixed64FromRational(price, BaseUnit) - Fixed64FromNatural(1)
             supply == S.coin_supply
             contract_by == saturated_mul(fraction, supply)
         IN  contract_supply(S, supply, contract_by, block)
    ELSE IF price < BaseUnit
    THEN LET fraction == Fixed64FromRational(BaseUnit, price) - Fixed64FromNatural(1)
             supply == S.coin_supply
             expand_by == saturated_mul(fraction, supply)
         IN  {expand_supply(S, supply, expand_by, block)}
    ELSE {Result(TRUE, "", <<>>, S)}

on_block_with_price_every_block(S, block, price) ==
    expand_or_contract_on_price(S, price, block)

on_block_with_price(S, block, price) ==
    IF block % AdjustmentFrequency = 0
    THEN expand_or_contract_on_price(S, price, block)
    ELSE {Result(TRUE, "", <<>>, S)}

(* ----------------------- dispatchable functions ----------------------- *)
CurrentStore ==
    [initialized |-> initialized, shares |-> shares, balance |-> balance,
     coin_supply |-> coin_supply, rb |-> [range |-> bonds_range, map |-> bonds],
     bond_bids |-> bond_bids, next_id |-> next_bond_id, fate |-> fate,
     popped |-> <<>>]

(* init: the results of the call on store S *)
init_unguarded(S, founder) ==
    Result(TRUE, "", <<<<"Initialized", founder>>>>,
           [S EXCEPT !.shares = <<<<founder, SHARE_SUPPLY>>>>,
                     !.balance[founder] = InitialSupply,
                     !.coin_supply = InitialSupply,
                     !.initialized = TRUE])

init(S, founder) ==
    IF S.initialized
    THEN Result(FALSE, "can only be initialized once", <<>>, S)
    ELSE Result(TRUE, "", <<<<"Initialized", founder>>>>,
                [S EXCEPT !.shares = <<<<founder, SHARE_SUPPLY>>>>,
                          !.balance[founder] = InitialSupply,
                          !.coin_supply = InitialSupply,
                          !.initialized = TRUE])

init_with_shareholders(S, founder, shareholders) ==
    IF S.initialized
    THEN Result(FALSE, "can only be initialized once", <<>>, S)
    ELSE IF shareholders = <<>>
    THEN Result(FALSE, "need at least one shareholder", <<>>, S)
    ELSE LET sh == [i \in 1 .. Len(shareholders) |-> <<shareholders[i], 1>>]
             h == hand_out_coins(sh, InitialSupply, S.coin_supply, S.balance)
         IN  IF ~h.ok
             THEN Result(FALSE, h.err, <<>>, S)
             ELSE Result(TRUE, "", <<<<"Initialized", founder>>>>,
                         [S EXCEPT !.balance = h.balance, !.coin_supply = h.coin_supply,
                                   !.shares = sh, !.initialized = TRUE])

transfer_debits_first(S, sender, to, amount) ==
    IF ~CheckedSubOk(S.balance[sender], amount)
    THEN Result(FALSE, "not enough balance to transfer (underflow)", <<>>, S)
    ELSE LET debited == [S EXCEPT !.balance[sender] = @ - amount]
         IN  IF ~CheckedAddOk(debited.balance[to], amount)
             THEN Result(FALSE, "overflow for transfer target", <<>>, debited)
             ELSE Result(TRUE, "", <<<<"Transfer", sender, to, amount>>>>,
                         [debited EXCEPT !.balance[to] = @ + amount])

transfer(S, sender, to, amount) ==
    LET sender_balance == S.balance[sender]
        receiver_balance == S.balance[to]
    IN  IF ~CheckedSubOk(sender_balance, amount)
        THEN Result(FALSE, "not enough balance to transfer (underflow)", <<>>, S)
        ELSE IF ~CheckedAddOk(receiver_balance, amount)
        THEN Result(FALSE, "overflow for transfer target", <<>>, S)
        ELSE LET updated_from_balance == sender_balance - amount
                 updated_to_balance == receiver_balance + amount
                 \* insert(&sender, ..) and then insert(&to, ..): the second write wins
                 bal1 == [S.balance EXCEPT ![sender] = updated_from_balance]
                 bal2 == [bal1 EXCEPT ![to] = updated_to_balance]
             IN  Result(TRUE, "", <<<<"Transfer", sender, to, amount>>>>,
                        [S EXCEPT !.balance = bal2])

bid_for_bond(S, who, price_per_bond, quantity) ==
    IF ~(price_per_bond <= FromPercent(100))
    THEN {Result(FALSE, "price cannot be higher than 100%", <<>>, S)}
    ELSE IF ~(price_per_bond > MINIMUM_BOND_PRICE)
    THEN {Result(FALSE, "price is lower than the minimum bond price", <<>>, S)}
    ELSE IF ~(quantity >= BaseUnit)
    THEN {Result(FALSE, "quantity is lower than the base unit", <<>>, S)}
    ELSE LET bid == Bid(who, price_per_bond, quantity)
         IN  IF ~remove_balance_ok(S.balance, who, payment(bid))
             THEN {Result(FALSE, "InsufficientBalance", <<>>, S)}
             ELSE {Result(TRUE, "",
                          w.events \o <<<<"NewBid", who, price_per_bond, quantity>>>>,
                          [S EXCEPT !.balance = w.balance, !.bond_bids = w.bids])
                   : w \in add_bid_to([bids |-> S.bond_bids,
                                       balance |-> remove_balance(S.balance, who, payment(bid)),
                                       events |-> <<>>], bid)}

cancel_bids_at_or_below(S, who, price) ==
    LET w == cancel_bids(S.bond_bids, S.balance, [who |-> who, all |-> FALSE, price |-> price])
    IN  Result(TRUE, "", Append(w.events, <<"CancelledBidsBelow", who, price>>),
               [S EXCEPT !.balance = w.balance, !.bond_bids = w.bids])

cancel_all_bids(S, who) ==
    LET w == cancel_bids(S.bond_bids, S.balance, [who |-> who, all |-> TRUE, price |-> 0])
    IN  Result(TRUE, "", Append(w.events, <<"CancelledBids", who>>),
               [S EXCEPT !.balance = w.balance, !.bond_bids = w.bids])

(* ------------------------------ inputs -------------------------------- *)
(* The accounts that sign extrinsics and receive transfers. *)
Origins == {1, 2}
TransferAmounts == {2 * BaseUnit}
BidPrices == {FromPercent(10), FromPercent(40), FromPercent(80), FromPercent(100)}
BidQuantities == {BaseUnit - 1, BaseUnit}
CancelPrices == {FromPercent(80)}
OraclePrices == {0, BaseUnit \div 2, BaseUnit - 1, BaseUnit, BaseUnit + 1, BaseUnit + 2,
                 2 * BaseUnit, 3 * BaseUnit}
ShareholderLists == {<<>>, <<1>>, <<1, 2>>}

(* ------------------------------ actions ------------------------------- *)
Commit(r, op, args) ==
    /\ initialized' = r.S.initialized
    /\ shares' = r.S.shares
    /\ balance' = r.S.balance
    /\ coin_supply' = r.S.coin_supply
    /\ bonds' = r.S.rb.map
    /\ bonds_range' = r.S.rb.range
    /\ bond_bids' = r.S.bond_bids
    /\ next_bond_id' = r.S.next_id
    /\ fate' = r.S.fate
    /\ last' = [op |-> op, args |-> args, ok |-> r.ok, err |-> r.err, events |-> r.events,
                popped |-> r.S.popped]
    /\ pre' = Snapshot
    /\ runtime' = runtime
    /\ tx_count' = IF r.ok /\ op # "on_block" THEN tx_count + 1 ELSE tx_count

(* The state after a failed extrinsic is kept for observation only: the   *)
(* failed dispatch wrote no store (Settled says so explicitly), hence     *)
(* every step from it is a step from the state before it, which is        *)
(* explored.                                                               *)
Settled_unless_failed == last.ok

Settled == last.ok \/ last.op = "on_block"

(* An extrinsic runs inside the current block.  Only the successful ones  *)
(* count towards MaxExtrinsics.                                            *)
Extrinsic ==
    /\ Settled
    /\ tx_count < MaxExtrinsics
    /\ UNCHANGED block_number

DoInit ==
    \E founder \in Origins :
        /\ Extrinsic
        /\ Commit(init(CurrentStore, founder), "init", [who |-> founder])

DoInitWithShareholders ==
    \E founder \in Origins, list \in ShareholderLists :
        /\ Extrinsic
        /\ Commit(init_with_shareholders(CurrentStore, founder, list),
                  "init_with_shareholders", [who |-> founder, shareholders |-> list])

DoTransfer ==
    \E sender \in Origins, to \in Origins, amount \in TransferAmounts :
        /\ Extrinsic
        /\ Commit(transfer(CurrentStore, sender, to, amount),
                  "transfer", [who |-> sender, to |-> to, amount |-> amount])

DoBidForBond ==
    \E who \in Origins, price \in BidPrices, quantity \in BidQuantities :
        /\ Extrinsic
        /\ \E r \in bid_for_bond(CurrentStore, who, price, quantity) :
              Commit(r, "bid_for_bond", [who |-> who, price |-> price, quantity |-> quantity])

DoCancelBidsAtOrBelow ==
    \E who \in Origins, price \in CancelPrices :
        /\ Extrinsic
        /\ Commit(cancel_bids_at_or_below(CurrentStore, who, price),
                  "cancel_bids_at_or_below", [who |-> who, price |-> price])

DoCancelAllBids ==
    \E who \in Origins :
        /\ Extrinsic
        /\ Commit(cancel_all_bids(CurrentStore, who), "cancel_all_bids", [who |-> who])

(* on_initialize(n) of the next block: the error of on_block_with_price is only logged *)
OnInitialize ==
    \E price \in OraclePrices :
        /\ Settled
        /\ block_number < MaxBlock
        /\ block_number' = block_number + 1
        /\ \E r \in on_block_with_price(CurrentStore, block_number + 1, price) :
              Commit(r, "on_block", [block |-> block_number + 1, price |-> price])

Init ==
    /\ runtime = "small"
    /\ initialized = FALSE
    /\ shares = <<>>
    /\ balance = [a \in Accounts |-> 0]
    /\ coin_supply = 0
    /\ bonds = [i \in 0 .. BondIndexMod - 1 |-> NoBond]
    /\ bonds_range = <<0, 0>>
    /\ bond_bids = <<>>
    /\ block_number = 0
    /\ tx_count = 0
    /\ next_bond_id = 1
    /\ fate = <<>>
    /\ last = [op |-> "genesis", args |-> <<>>, ok |-> TRUE, err |-> "", events |-> <<>>,
               popped |-> <<>>]
    /\ pre = Snapshot

Next ==
    \/ DoInit
    \/ DoInitWithShareholders
    \/ DoTransfer
    \/ DoBidForBond
    \/ DoCancelBidsAtOrBelow
    \/ DoCancelAllBids
    \/ OnInitialize

Spec == Init /\ [][Next]_vars

(* ------------- the calls of the test runtime (SpecTest) --------------- *)
(* add_bid: read BondBids, _add_bid_to, write BondBids back *)
add_bid(S, bid) ==
    {Result(TRUE, "", w.events, [S EXCEPT !.balance = w.balance, !.bond_bids = w.bids])
     : w \in add_bid_to([bids |-> S.bond_bids, balance |-> S.balance, events |-> <<>>], bid)}

TestShareholders == [i \in 1 .. AccountCount |-> i]
TestBids ==
    {Bid(account, FromPercent(percent), quantity) :
        account \in {1, 2}, percent \in {75, 80},
        quantity \in {(125 * BaseUnit) \div 100, 2 * BaseUnit}}
    \cup {Bid(1, FromPercent(33), 40 * BaseUnit), Bid(2, FromPercent(25), 4 * BaseUnit)}
TestAmounts == {BaseUnit, 2 * BaseUnit, 13 * BaseUnit}

InitTest ==
    /\ runtime = "test"
    /\ initialized = FALSE
    /\ shares = <<>>
    /\ balance = [a \in Accounts |-> 0]
    /\ coin_supply = 0
    /\ bonds = [i \in 0 .. BondIndexMod - 1 |-> NoBond]
    /\ bonds_range = <<0, 0>>
    /\ bond_bids = <<>>
    /\ block_number = 0
    /\ tx_count = 0
    /\ next_bond_id = 1
    /\ fate = <<>>
    /\ last = [op |-> "genesis", args |-> <<>>, ok |-> TRUE, err |-> "", events |-> <<>>,
               popped |-> <<>>]
    /\ pre = Snapshot

TestInitWithShareholders ==
    /\ Extrinsic
    /\ Commit(init_with_shareholders(CurrentStore, 1, TestShareholders),
              "init_with_shareholders", [who |-> 1, shareholders |-> TestShareholders])

TestAddBid ==
    \E bid \in TestBids :
        /\ Extrinsic
        /\ \E r \in add_bid(CurrentStore, bid) : Commit(r, "add_bid", [bid |-> bid])

TestContractSupply ==
    \E amount \in TestAmounts :
        /\ Extrinsic
        /\ \E r \in contract_supply(CurrentStore, coin_supply, amount, block_number) :
               Commit(r, "contract_supply", [supply |-> coin_supply, amount |-> amount])

TestCancelPrices == {FromPercent(75)}

TestCancelBidsAtOrBelow ==
    \E who \in {1, 2}, price \in TestCancelPrices :
        /\ Extrinsic
        /\ Commit(cancel_bids_at_or_below(CurrentStore, who, price),
                  "cancel_bids_at_or_below", [who |-> who, price |-> price])

TestCancelAllBids ==
    \E who \in {1, 2} :
        /\ Extrinsic
        /\ Commit(cancel_all_bids(CurrentStore, who), "cancel_all_bids", [who |-> who])

NextTest ==
    \/ TestInitWithShareholders
    \/ TestAddBid
    \/ TestContractSupply
    \/ TestCancelBidsAtOrBelow
    \/ TestCancelAllBids

SpecTest == InitTest /\ [][NextTest]_vars

(* --------------- hand_out_coins on its own (SpecHandOut) -------------- *)
(* The share lists handed to hand_out_coins: what init and                *)
(* init_with_shareholders store, and the lists of the handout tests.      *)
HandOutShares ==
    {<<<<1, SHARE_SUPPLY>>>>, <<<<2, SHARE_SUPPLY>>>>,
     <<<<1, 1>>>>, <<<<1, 1>>, <<2, 1>>>>, <<<<2, 1>>, <<1, 1>>>>,
     <<<<1, 1>>, <<2, 1>>, <<3, 1>>>>, <<<<3, 1>>, <<1, 1>>, <<2, 1>>>>}

InitHandOut ==
    /\ runtime = "small"
    /\ initialized = TRUE
    /\ shares \in HandOutShares
    /\ balance = [a \in Accounts |-> 0]
    /\ coin_supply = 0
    /\ bonds = [i \in 0 .. BondIndexMod - 1 |-> NoBond]
    /\ bonds_range = <<0, 0>>
    /\ bond_bids = <<>>
    /\ block_number = 0
    /\ tx_count = 0
    /\ next_bond_id = 1
    /\ fate = <<>>
    /\ last = [op |-> "genesis", args |-> <<>>, ok |-> TRUE, err |-> "", events |-> <<>>,
               popped |-> <<>>]
    /\ pre = Snapshot

DoHandOutCoins ==
    \E amount \in 1 .. MaxCoins :
        LET h == hand_out_coins(shares, amount, coin_supply, balance)
        IN  /\ Settled
            /\ UNCHANGED block_number
            /\ Commit(Result(h.ok, h.err, <<>>,
                             [CurrentStore EXCEPT !.balance = h.balance,
                                                  !.coin_supply = h.coin_supply]),
                      "hand_out_coins", [amount |-> amount])

NextHandOut == DoHandOutCoins

SpecHandOut == InitHandOut /\ [][NextHandOut]_vars

(* ------------- the run without a last block (SpecLive) ---------------- *)
(* Blocks keep coming.  The state stays finite because the run is kept    *)
(* modulo two symmetries of the pallet: the serial number of a bond is    *)
(* history only, so a number that no queued bond carries is given again   *)
(* (the lowest free one first); and only block % AdjustmentFrequency and  *)
(* the comparison block >= expiration depend on the block number, so the  *)
(* block number and every expiration are moved back together by           *)
(* AdjustmentFrequency once the block number has passed it.  What is     *)
(* never read again is forgotten: a slot of Bonds outside BondsRange, the *)
(* fate of a bond that left the queue before the last operation, and the  *)
(* record of the last operation with the stores before it (last and pre   *)
(* stay as they are after init; a failed call leaves every store and so   *)
(* the state as it was).  The runtime is "live".                          *)
LiveIds == 2 * (BondIndexMod - 1)

LiveBidPrices == {FromPercent(50)}
LiveBidQuantities == {2 * BaseUnit}
LiveOraclePrices == {BaseUnit - 1, BaseUnit + 1, BaseUnit + 2}

GenesisStore ==
    [initialized |-> FALSE, shares |-> <<>>, balance |-> [a \in Accounts |-> 0],
     coin_supply |-> 0,
     rb |-> [range |-> <<0, 0>>, map |-> [i \in 0 .. BondIndexMod - 1 |-> NoBond]],
     bond_bids |-> <<>>, next_id |-> LiveIds + 1,
     fate |-> [i \in 1 .. LiveIds |-> "unused"], popped |-> <<>>]

(* The serial numbers no bond of the BondQueue carries, and the j-th of them. *)
FreeIds == {i \in 1 .. LiveIds : \A k \in DOMAIN BondQueue : BondQueue[k].id # i}
NthFree(j) == CHOOSE i \in FreeIds : Cardinality({f \in FreeIds : f < i}) = j - 1

LiveShift(block) == IF block > AdjustmentFrequency THEN AdjustmentFrequency ELSE 0

CommitLive(r, op, args, block) ==
    LET minted == Len(r.S.fate) - LiveIds
        serial(id) == IF id > LiveIds THEN NthFree(id - LiveIds) ELSE id
        moved(b) == [b EXCEPT !.id = serial(@),
                              !.expiration = Max(0, @ - LiveShift(block))]
        occupied(i) == \E k \in 1 .. RingLen(r.S.rb) :
                           (r.S.rb.range[1] + k - 1) % BondIndexMod = i
    IN  /\ initialized' = r.S.initialized
        /\ shares' = r.S.shares
        /\ balance' = r.S.balance
        /\ coin_supply' = r.S.coin_supply
        /\ bonds' = [i \in DOMAIN r.S.rb.map |->
                        IF occupied(i) THEN moved(r.S.rb.map[i]) ELSE NoBond]
        /\ bonds_range' = r.S.rb.range
        /\ bond_bids' = r.S.bond_bids
        /\ next_bond_id' = next_bond_id
        /\ fate' = [i \in 1 .. LiveIds |->
                       IF \E j \in 1 .. minted : NthFree(j) = i
                       THEN r.S.fate[LiveIds + (CHOOSE j \in 1 .. minted : NthFree(j) = i)]
                       ELSE IF i \in FreeIds THEN "unused"
                       ELSE r.S.fate[i]]
        /\ block_number' = block - LiveShift(block)
        /\ tx_count' = tx_count
        /\ last' = last
        /\ pre' = pre
        /\ runtime' = runtime

LiveBidForBond ==
    \E who \in Origins, price \in LiveBidPrices, quantity \in LiveBidQuantities :
        /\ Settled
        /\ \E r \in bid_for_bond(CurrentStore, who, price, quantity) :
              CommitLive(r, "bid_for_bond",
                         [who |-> who, price |-> price, quantity |-> quantity], block_number)

(* on_initialize(n) of the next block *)
LiveOnInitialize ==
    \E price \in LiveOraclePrices :
        /\ Settled
        /\ \E r \in on_block_with_price(CurrentStore, block_number + 1, price) :
              CommitLive(r, "on_block", [block |-> block_number + 1, price |-> price],
                         block_number + 1)

InitLive ==
    /\ runtime = "live"
    /\ \E founder \in {a \in Origins : \A b \in Origins : a <= b} :
          LET S == init(GenesisStore, founder).S
          IN  /\ initialized = S.initialized
              /\ shares = S.shares
              /\ balance = S.balance
              /\ coin_supply = S.coin_supply
              /\ bonds = S.rb.map
              /\ bonds_range = S.rb.range
              /\ bond_bids = S.bond_bids
              /\ next_bond_id = S.next_id
              /\ fate = S.fate
              /\ last = [op |-> "init", args |-> [who |-> founder], ok |-> TRUE, err |-> "",
                         events |-> <<<<"Initialized", founder>>>>, popped |-> <<>>]
    /\ block_number = 0
    /\ tx_count = 0
    /\ pre = Snapshot

NextLive ==
    \/ LiveBidForBond
    \/ LiveOnInitialize

(* What a step of LiveOnInitialize does to the block number. *)
NextBlock ==
    /\ Settled
    /\ block_number' = block_number + 1 - LiveShift(block_number + 1)

(* Blocks are produced without end and on_initialize is called for each   *)
(* one: the block number keeps moving.                                    *)
SpecLive == InitLive /\ [][NextLive]_vars /\ WF_block_number(NextBlock)

(* ------------------------------ Properties ---------------------------- *)
RECURSIVE SumOver(_, _)
SumOver(f, D) ==
    IF D = {} THEN 0
    ELSE LET x == CHOOSE y \in D : TRUE IN f[x] + SumOver(f, D \ {x})

SumBalances(bal) == SumOver(bal, Accounts)

SumPayments(bids) == SumOver([i \in DOMAIN bids |-> payment(bids[i])], DOMAIN bids)

HasEvent(name) == \E i \in DOMAIN last.events : last.events[i][1] = name

(* C1: a successful transfer leaves CoinSupply and the sum of all         *)
(* balances unchanged.                                                    *)
C1_TransferConserves ==
    (last.op = "transfer" /\ last.ok)
        => /\ coin_supply = pre.coin_supply
           /\ SumBalances(balance) = SumBalances(pre.balance)

(* C2: once initialized, CoinSupply equals the sum of all balances plus   *)
(* the sum of payment() over the bids in the BidBook.                     *)
C2_SupplyIsBalancesPlusEscrow ==
    initialized => coin_supply = SumBalances(balance) + SumPayments(bond_bids)

(* C3: every successful hand_out_coins call, with any non-empty share     *)
(* list, credits in total exactly the amount it was asked to hand out.    *)
C3_HandOutPaysAmount ==
    (last.op = "hand_out_coins" /\ last.ok)
        => SumBalances(balance) - SumBalances(pre.balance) = last.args.amount

OneShareEach(sh) ==
    /\ Len(sh) > 0
    /\ \A i \in DOMAIN sh : sh[i][2] = 1
    /\ \A i, j \in DOMAIN sh : i # j => sh[i][1] # sh[j][1]

(* C4: with N unique holders of one share each and amount > 0, the holder *)
(* at 0-based index i gains amount / N, plus 1 when i < amount % N.       *)
C4_EqualSharesSplit ==
    (last.op = "hand_out_coins" /\ last.ok /\ OneShareEach(shares))
        => \A i \in DOMAIN shares :
               balance[shares[i][1]] - pre.balance[shares[i][1]]
                   = (last.args.amount \div Len(shares))
                     + (IF i - 1 < last.args.amount % Len(shares) THEN 1 ELSE 0)

C4_Witness ==
    /\ last.op = "hand_out_coins" /\ last.ok
    /\ OneShareEach(shares)
    /\ Len(shares) = 3
    /\ last.args.amount > Len(shares)
    /\ last.args.amount % Len(shares) = 2
    /\ SumBalances(pre.balance) > 0

(* C5: in every reachable state the BidBook holds at most MaximumBids.    *)
C5_BidBookBounded == Len(bond_bids) <= MaximumBids

(* A bid_for_bond on a full BidBook: the lowest bid was evicted. *)
C5_Witness ==
    /\ last.op = "bid_for_bond" /\ last.ok
    /\ Len(pre.bond_bids) = MaximumBids
    /\ HasEvent("RefundedBid")
    /\ Len(bond_bids) = MaximumBids

EscrowOf(bids, a) ==
    SumOver([i \in DOMAIN bids |-> IF bids[i].account = a THEN payment(bids[i]) ELSE 0],
            DOMAIN bids)

BidsWereRemoved ==
    \/ /\ last.op \in {"cancel_bids_at_or_below", "cancel_all_bids"} /\ last.ok
       /\ Len(bond_bids) < Len(pre.bond_bids)
    \/ /\ last.op = "bid_for_bond" /\ last.ok
       /\ Len(pre.bond_bids) = MaximumBids

(* C7: when bids are evicted or cancelled, each bidder's balance grows by *)
(* exactly the payments of their removed bids and no other balance        *)
(* changes: balance plus escrow is the same for every account as before   *)
(* the call.                                                              *)
C7_RefundIsPayment ==
    BidsWereRemoved
        => \A a \in Accounts :
               balance[a] + EscrowOf(bond_bids, a)
                   = pre.balance[a] + EscrowOf(pre.bond_bids, a)

(* C8: after a successful contract_supply, and in every state after       *)
(* initialization, CoinSupply >= MinimumSupply.                           *)
C8_SupplyFloor ==
    /\ (last.op = "on_block" /\ HasEvent("ContractedSupply"))
           => coin_supply >= MinimumSupply
    /\ initialized => coin_supply >= MinimumSupply

(* A contraction that burned coins down to exactly MinimumSupply. *)
C8_Witness ==
    /\ last.op = "on_block" /\ last.ok
    /\ HasEvent("ContractedSupply")
    /\ coin_supply < pre.coin_supply
    /\ coin_supply = MinimumSupply

(* ------------------------------- bonds -------------------------------- *)
PreBondQueue == RingSeq([range |-> pre.bonds_range, map |-> pre.bonds])

ExpansionRan == last.op = "on_block" /\ last.ok /\ HasEvent("ExpandedSupply")

(* The amount of the expansion that just ran. *)
ExpandedBy ==
    LET i == CHOOSE j \in DOMAIN last.events : last.events[j][1] = "ExpandedSupply"
    IN  last.events[i][2]

(* The bond with serial number k was paid, in full or in part, by the     *)
(* expansion that just ran.                                              *)
Credited(k) ==
    /\ ExpansionRan
    /\ \E i \in DOMAIN PreBondQueue :
           /\ PreBondQueue[i].id = k
           /\ \/ fate[k] = "paid"
              \/ \E j \in DOMAIN BondQueue :
                     /\ BondQueue[j].id = k
                     /\ BondQueue[j].payout < PreBondQueue[i].payout

(* Expired bonds do not block: when an expansion of a positive amount     *)
(* finds a bond that has not expired, the first such bond is credited.    *)
ExpiredBondsDoNotBlock ==
    (ExpansionRan /\ ExpandedBy > 0)
        => \A i \in DOMAIN PreBondQueue :
               (/\ block_number < PreBondQueue[i].expiration
                /\ \A j \in 1 .. i - 1 : block_number >= PreBondQueue[j].expiration)
                   => Credited(PreBondQueue[i].id)

(* C9 as stated: a bond is credited only if every bond inserted before it *)
(* has been paid in full or discarded as expired, and expired bonds do    *)
(* not block the bonds behind them.                                       *)
C9_BondFifoAsStated ==
    /\ \A k \in DOMAIN fate :
           Credited(k) => \A j \in 1 .. k - 1 : fate[j] \in {"paid", "expired"}
    /\ ExpiredBondsDoNotBlock

(* C9, amended: a bond is credited only if every bond inserted before it  *)
(* has been paid in full, discarded as expired, or overwritten unpaid by  *)
(* a push onto a full BondQueue; expired bonds do not block the bonds     *)
(* behind them.                                                           *)
C9_BondFifo ==
    /\ \A k \in DOMAIN fate :
           Credited(k) =>
               \A j \in 1 .. k - 1 : fate[j] \in {"paid", "expired", "dropped"}
    /\ ExpiredBondsDoNotBlock

(* An expansion skipped an expired bond and credited the bond behind it. *)
C9_Witness ==
    /\ ExpansionRan
    /\ \E k \in DOMAIN fate :
           /\ Credited(k)
           /\ \E j \in 1 .. k - 1 : pre.fate[j] = "queued" /\ fate[j] = "expired"

(* A ring buffer holding the bonds of seq, head first. *)
RingOf(seq) ==
    [range |-> <<0, Len(seq)>>,
     map |-> [i \in 0 .. BondIndexMod - 1 |-> IF i < Len(seq) THEN seq[i + 1] ELSE NoBond]]

StillValid(b) == block_number < b.expiration

(* The state before the expansion, without the bonds that had expired. *)
PreStoreWithoutExpired ==
    [initialized |-> pre.initialized, shares |-> pre.shares, balance |-> pre.balance,
     coin_supply |-> pre.coin_supply,
     rb |-> RingOf(SelectSeq(PreBondQueue, StillValid)),
     bond_bids |-> pre.bond_bids, next_id |-> next_bond_id, fate |-> pre.fate,
     popped |-> <<>>]

(* C10: no bond is credited at a block >= its expiration; an expired bond *)
(* popped by expand_supply is discarded, and balances and CoinSupply end  *)
(* as if the expired bonds had not been in the queue: nothing goes to     *)
(* their accounts because of them, and the amount goes on to later bonds  *)
(* or to the shareholders.                                                *)
C10_ExpiredNeverCredited ==
    /\ \A i \in DOMAIN PreBondQueue :
           Credited(PreBondQueue[i].id) => block_number < PreBondQueue[i].expiration
    /\ (ExpansionRan /\ HasEvent("BondExpired"))
           => /\ \A k \in DOMAIN pre.fate :
                     (pre.fate[k] = "queued" /\ fate[k] = "expired")
                         => \A j \in DOMAIN BondQueue : BondQueue[j].id # k
              /\ LET r == expand_supply(PreStoreWithoutExpired, pre.coin_supply,
                                        ExpandedBy, block_number)
                 IN  /\ r.ok
                     /\ balance = r.S.balance
                     /\ coin_supply = r.S.coin_supply

(* An expansion at exactly a bond's expiration block discarded it and     *)
(* paid the bond behind it in full.                                       *)
C10_Witness ==
    /\ ExpansionRan
    /\ HasEvent("BondExpired")
    /\ HasEvent("BondFulfilled")
    /\ \E i \in DOMAIN PreBondQueue :
           /\ PreBondQueue[i].expiration = block_number
           /\ fate[PreBondQueue[i].id] = "expired"

BondCredit(a) ==
    SumOver([i \in DOMAIN PreBondQueue |->
                LET b == PreBondQueue[i]
                IN  IF b.account # a \/ pre.fate[b.id] # "queued" THEN 0
                    ELSE IF fate[b.id] = "paid" THEN b.payout
                    ELSE IF \E j \in DOMAIN BondQueue : BondQueue[j].id = b.id
                    THEN b.payout
                         - (LET j == CHOOSE j \in DOMAIN BondQueue : BondQueue[j].id = b.id
                            IN  BondQueue[j].payout)
                    ELSE 0],
            DOMAIN PreBondQueue)

(* What the expansion that just ran paid to account a beyond its bonds. *)
ShareholderGain(a) == balance[a] - pre.balance[a] - BondCredit(a)

C12_BondsBeforeShares ==
    (ExpansionRan /\ BondQueue # <<>>) => \A a \in Accounts : ShareholderGain(a) <= 0

(* ---------------------------- contraction ----------------------------- *)
ContractionRan == last.op = "on_block" /\ last.ok /\ HasEvent("ContractedSupply")

(* The amount the contraction that just ran was asked to burn. *)
ContractBy ==
    saturated_mul(Fixed64FromRational(last.args.price, BaseUnit) - Fixed64FromNatural(1),
                  pre.coin_supply)

(* The amount the contraction that just ran reports as burned. *)
Burned ==
    LET i == CHOOSE j \in DOMAIN last.events : last.events[j][1] = "ContractedSupply"
    IN  last.events[i][2]

(* The bids the contraction that just ran converted into bonds, in full   *)
(* or in part.                                                            *)
ConsumedBids == {i \in DOMAIN last.popped : ~last.popped[i].refunded}

(* The amount the operation that just ran asked contract_supply to burn. *)
ContractAmount == IF last.op = "contract_supply" THEN last.args.amount ELSE ContractBy

(* C13: contract_supply converts bids from the highest price downwards: a *)
(* bid is consumed only when no bid left in the book at that moment has a *)
(* strictly higher price, and after the contraction every bid left has a  *)
(* price <= the price of every consumed bid.                              *)
C13_HighestBidsFirst ==
    ContractionRan =>
        \A i \in ConsumedBids :
            /\ \A j \in DOMAIN last.popped[i].book :
                   last.popped[i].book[j].price <= last.popped[i].bid.price
            /\ \A j \in DOMAIN bond_bids :
                   bond_bids[j].price <= last.popped[i].bid.price

(* A contraction consumed the dearer bid in full and the cheaper bid in   *)
(* part, and put the rest of the cheaper bid back.                        *)
C13_Witness ==
    /\ ContractionRan
    /\ ConsumedBids = {1, 2}
    /\ last.popped[1].bid.price > last.popped[2].bid.price
    /\ Len(bond_bids) = 1
    /\ bond_bids[1].price = last.popped[2].bid.price

ContractionBurnsWhatBidsPay ==
    /\ coin_supply = pre.coin_supply - Burned
    /\ Burned <= ContractBy
    /\ IF SumPayments(pre.bond_bids) >= ContractBy
       THEN Burned = ContractBy
       ELSE Burned = SumPayments(pre.bond_bids) /\ bond_bids = <<>>

ContractScenario ==
    /\ TestRuntime
    /\ last.op = "contract_supply" /\ last.ok
    /\ last.args.amount = 2000
    /\ pre.initialized /\ Len(pre.shares) = 10
    /\ pre.bond_bids = <<Bid(2, FromPercent(75), 2000), Bid(1, FromPercent(80), 1250)>>
    /\ PreBondQueue = <<>>

BondPayouts == [i \in DOMAIN BondQueue |-> BondQueue[i].payout]

(* C15 as stated: the scenario creates exactly two bonds with payouts     *)
(* 1250 and 333, leaves the single bid (2, 75%, 667) and decreases        *)
(* CoinSupply by 2000.                                                    *)
C15_ScenarioAsStated ==
    ContractScenario =>
        /\ BondPayouts = <<1250, 333>>
        /\ bond_bids = <<Bid(2, FromPercent(75), 667)>>
        /\ coin_supply = pre.coin_supply - 2000

(* C15, amended: the scenario creates exactly two bonds with payouts 1250 *)
(* and 1333, leaves the single bid (2, 75%, 667) and decreases CoinSupply *)
(* by 2000.                                                               *)
C15_Scenario ==
    ContractScenario =>
        /\ BondPayouts = <<1250, 1333>>
        /\ bond_bids = <<Bid(2, FromPercent(75), 667)>>
        /\ coin_supply = pre.coin_supply - 2000

C15_Witness ==
    /\ ContractScenario
    /\ pre.coin_supply = 100000
    /\ Len(BondQueue) = 2

(* ------------------------------ errors -------------------------------- *)
StoresUnchanged == Snapshot = pre

ContractionAttempted ==
    /\ last.op = "on_block"
    /\ last.args.block % AdjustmentFrequency = 0
    /\ last.args.price > BaseUnit

(* C16: contract_supply(supply, amount) fails with CoinSupplyUnderflow    *)
(* whenever supply - amount underflows or is below MinimumSupply, and     *)
(* then BidBook, BondQueue, balances and CoinSupply are unchanged.        *)
C16_ContractionUnderflow ==
    (/\ ContractionAttempted
     /\ \/ ContractBy > pre.coin_supply
        \/ pre.coin_supply - ContractBy < MinimumSupply)
        => /\ ~last.ok
           /\ last.err = "CoinSupplyUnderflow"
           /\ StoresUnchanged

(* A contraction refused for the floor although bids were waiting. *)
C16_Witness ==
    /\ ContractionAttempted
    /\ initialized
    /\ bond_bids # <<>>
    /\ ContractBy <= pre.coin_supply
    /\ pre.coin_supply - ContractBy < MinimumSupply
    /\ last.err = "CoinSupplyUnderflow"

(* C17: every dispatch that returns an error leaves every persisted store *)
(* exactly as it was.                                                     *)
C17_ErrorsChangeNothing == ~last.ok => StoresUnchanged

(* A transfer refused for the receiver's overflow after the sender's      *)
(* balance had passed its check.                                          *)
C17_Witness ==
    /\ last.op = "transfer"
    /\ ~last.ok
    /\ last.err = "overflow for transfer target"
    /\ last.args.who # last.args.to
    /\ balance[last.args.who] >= last.args.amount

(* C18: a successful init(founder) happens only before initialization and *)
(* sets Shares = [(founder, SHARE_SUPPLY)], the founder's balance and     *)
(* CoinSupply to InitialSupply; once Init is true it stays true and every *)
(* init or init_with_shareholders fails and changes no state.             *)
C18_InitOnce ==
    /\ (last.op = "init" /\ last.ok)
           => /\ ~pre.initialized /\ initialized
              /\ shares = <<<<last.args.who, SHARE_SUPPLY>>>>
              /\ balance[last.args.who] = InitialSupply
              /\ coin_supply = InitialSupply
    /\ (last.op \in {"init", "init_with_shareholders"} /\ pre.initialized)
           => ~last.ok /\ StoresUnchanged
    /\ pre.initialized => initialized

(* A second init, by another account, after the state has moved on. *)
C18_Witness ==
    /\ last.op = "init" /\ ~last.ok
    /\ pre.initialized
    /\ shares # <<<<last.args.who, SHARE_SUPPLY>>>>
    /\ bond_bids # <<>>
    /\ coin_supply # InitialSupply

RefundedTo(a) ==
    \E i \in DOMAIN last.events : last.events[i][1] = "RefundedBid" /\ last.events[i][2] = a

(* C19: bid_for_bond succeeds only with 10% < price <= 100%,              *)
(* quantity >= BaseUnit and balance >= price * quantity, and debits       *)
(* exactly price * quantity from the bidder (who gets nothing else unless *)
(* a bid of theirs is evicted by the same call); every bid in the BidBook *)
(* has a price in (10%, 100%] and a quantity > 0.                         *)
C19_BidsAreValid ==
    /\ (last.op = "bid_for_bond" /\ last.ok)
           => LET cost == PerbillMul(last.args.price, last.args.quantity)
              IN  /\ last.args.price > FromPercent(10)
                  /\ last.args.price <= FromPercent(100)
                  /\ last.args.quantity >= BaseUnit
                  /\ pre.balance[last.args.who] >= cost
                  /\ ~RefundedTo(last.args.who)
                         => balance[last.args.who] = pre.balance[last.args.who] - cost
    /\ \A i \in DOMAIN bond_bids :
           /\ bond_bids[i].price > FromPercent(10)
           /\ bond_bids[i].price <= FromPercent(100)
           /\ bond_bids[i].quantity > 0

(* A bid at 80% whose payment is rounded, next to a bid that a            *)
(* contraction has reduced below BaseUnit.                                *)
C19_Witness ==
    /\ last.op = "bid_for_bond" /\ last.ok
    /\ last.args.price = FromPercent(80)
    /\ balance[last.args.who] = pre.balance[last.args.who] - 3
    /\ \E i \in DOMAIN bond_bids : bond_bids[i].quantity < BaseUnit

(* C20: on_block changes no persisted state when the block is not a       *)
(* multiple of AdjustmentFrequency, whatever the price, nor on a          *)
(* qualifying block when price = BaseUnit.                                *)
C20_OnBlockNoOp ==
    (/\ last.op = "on_block"
     /\ \/ last.args.block % AdjustmentFrequency # 0
        \/ last.args.price = BaseUnit)
        => StoresUnchanged /\ last.events = <<>>

(* A block off the adjustment frequency with a price that would expand    *)
(* the supply and pay a queued bond.                                      *)
C20_Witness ==
    /\ last.op = "on_block"
    /\ last.args.block % AdjustmentFrequency # 0
    /\ last.args.price \in 1 .. BaseUnit - 1
    /\ initialized
    /\ BondQueue # <<>>
    /\ bond_bids # <<>>

(* --------------------------- price controller ------------------------- *)
QualifyingBlock == last.op = "on_block" /\ last.args.block % AdjustmentFrequency = 0

(* delta is (num / den) * n up to the rounding of the fixed-point         *)
(* arithmetic: the fraction is truncated to one part in PerbillAccuracy   *)
(* and its product with n is rounded to the nearest coin.                 *)
WithinRounding(delta, num, den, n) ==
    /\ 2 * PerbillAccuracy * den * delta <= 2 * PerbillAccuracy * num * n + PerbillAccuracy * den
    /\ 2 * PerbillAccuracy * den * delta
           > 2 * PerbillAccuracy * num * n - 2 * n * den - PerbillAccuracy * den

NoBondWasPaid ==
    /\ ~HasEvent("BondFulfilled") /\ ~HasEvent("BondPartiallyFulfilled")
    /\ ~HasEvent("BondExpired") /\ ~HasEvent("ExpandedSupply")
    /\ \A k \in DOMAIN pre.fate : fate[k] = pre.fate[k] \/ fate[k] = "dropped"
    /\ \A i \in DOMAIN PreBondQueue :
           \A j \in DOMAIN BondQueue :
               BondQueue[j].id = PreBondQueue[i].id => BondQueue[j] = PreBondQueue[i]

NoBondWasCreated ==
    /\ ~HasEvent("NewBond") /\ ~HasEvent("ContractedSupply") /\ ~HasEvent("RefundedBid")
    /\ Len(fate) = Len(pre.fate)

C22_OnBlockNeverAborts ==
    /\ (QualifyingBlock /\ last.args.price = 0) => ~last.ok /\ last.err = "ZeroPrice"
    /\ (last.op = "on_block" /\ ~last.ok)
           => /\ last.err \in {"ZeroPrice", "CoinSupplyUnderflow", "CoinSupplyOverflow"}
              /\ StoresUnchanged
              /\ block_number = last.args.block
              /\ block_number < MaxBlock => ENABLED OnInitialize

(* An expansion refused for overflow, with bids and a bond waiting and    *)
(* blocks still to come.                                                  *)
C22_Witness ==
    /\ last.op = "on_block" /\ ~last.ok
    /\ last.err = "CoinSupplyOverflow"
    /\ bond_bids # <<>>
    /\ BondQueue # <<>>
    /\ block_number < MaxBlock

(* The amount an expansion at the recorded price is asked to mint. *)
ExpandAmount ==
    saturated_mul(Fixed64FromRational(BaseUnit, last.args.price) - Fixed64FromNatural(1),
                  pre.coin_supply)

(* expand_or_contract_on_price ran with a price > 0 on a store set up by  *)
(* init_with_shareholders.                                                *)
ControllerRan ==
    /\ QualifyingBlock
    /\ last.args.price > 0
    /\ pre.initialized
    /\ OneShareEach(pre.shares)

KeptBids(bids, who, all, price) ==
    SelectSeq(bids, LAMBDA b : ~(b.account = who /\ (all \/ b.price <= price)))

(* C24: cancel_bids_at_or_below(who, p) removes exactly the bids with     *)
(* account = who and price <= p, cancel_all_bids(who) exactly the bids    *)
(* with account = who; every other bid stays, unchanged and in the same   *)
(* relative order, and a second identical call changes nothing.           *)
C24_CancelRemovesExactly ==
    /\ (last.op = "cancel_bids_at_or_below" /\ last.ok)
           => /\ bond_bids = KeptBids(pre.bond_bids, last.args.who, FALSE, last.args.price)
              /\ LET again == cancel_bids_at_or_below(CurrentStore, last.args.who,
                                                      last.args.price)
                 IN  again.ok /\ again.S = CurrentStore
    /\ (last.op = "cancel_all_bids" /\ last.ok)
           => /\ bond_bids = KeptBids(pre.bond_bids, last.args.who, TRUE, 0)
              /\ LET again == cancel_all_bids(CurrentStore, last.args.who)
                 IN  again.ok /\ again.S = CurrentStore

(* A cancellation at the limit price took the caller's bid at that price  *)
(* from between two bids that stay: another account's bid at the same     *)
(* price and the caller's own dearer bid.                                 *)
C24_Witness ==
    /\ last.op = "cancel_bids_at_or_below" /\ last.ok
    /\ Len(pre.bond_bids) = 3 /\ Len(bond_bids) = 2
    /\ pre.bond_bids[2].account = last.args.who
    /\ pre.bond_bids[2].price = last.args.price
    /\ bond_bids = <<pre.bond_bids[1], pre.bond_bids[3]>>
    /\ bond_bids[1].account # last.args.who
    /\ bond_bids[2].account = last.args.who

(* The bid that the bid_for_bond that just ran put into the book. *)
NewBid == Bid(last.args.who, last.args.price, last.args.quantity)

(* The book with the new bid placed behind every bid of a price <= its    *)
(* own, and the head removed when that exceeds MaximumBids.               *)
BookWithNewBidAfterOlder ==
    LET k == Cardinality({j \in DOMAIN pre.bond_bids : pre.bond_bids[j].price <= NewBid.price})
        ins == InsertAt(pre.bond_bids, k, NewBid)
    IN  IF Len(ins) > MaximumBids THEN Tail(ins) ELSE ins

(* C25: among bids of equal price a newer bid sits after (closer to the   *)
(* tail than) every older bid of that price, so that a full BidBook       *)
(* evicts the oldest of its lowest-priced bids.                           *)
C25_NewerAfterOlder ==
    (last.op = "bid_for_bond" /\ last.ok) => bond_bids = BookWithNewBidAfterOlder

(* --------------------------- partial fills ---------------------------- *)
PartialFillRan == ExpansionRan /\ HasEvent("BondPartiallyFulfilled")

(* The bonds the expansion that just ran paid in full. *)
PaidInFull == {i \in DOMAIN PreBondQueue : pre.fate[PreBondQueue[i].id] = "queued"
                                             /\ fate[PreBondQueue[i].id] = "paid"}

(* What was left of the expansion's amount when it reached the bond it    *)
(* filled in part.                                                        *)
RemainingAtPartialFill ==
    ExpandedBy - SumOver([i \in DOMAIN PreBondQueue |-> PreBondQueue[i].payout], PaidInFull)

(* The bond that was filled in part, as it was before the expansion. *)
PartiallyFilled ==
    PreBondQueue[CHOOSE i \in DOMAIN PreBondQueue : PreBondQueue[i].id = BondQueue[1].id]

(* C26: a partial fill credits the bond's account exactly the remaining   *)
(* amount (next to the bonds of that account paid in full before it) and  *)
(* returns the bond to the head of the BondQueue with its payout reduced  *)
(* by that amount, same account and same expiration; every queued bond    *)
(* keeps a positive payout, so the credits for one bond never exceed its  *)
(* original payout, and the bond is the first the next expansion meets.   *)
C26_PartialFill ==
    /\ \A i \in DOMAIN BondQueue : BondQueue[i].payout > 0
    /\ PartialFillRan
           => /\ BondQueue # <<>>
              /\ \E i \in DOMAIN PreBondQueue : PreBondQueue[i].id = BondQueue[1].id
              /\ fate[BondQueue[1].id] = "queued"
              /\ RemainingAtPartialFill > 0
              /\ PartiallyFilled.payout > RemainingAtPartialFill
              /\ BondQueue[1] = [PartiallyFilled EXCEPT
                                    !.payout = @ - RemainingAtPartialFill]
              /\ balance[PartiallyFilled.account] - pre.balance[PartiallyFilled.account]
                     = RemainingAtPartialFill
                       + SumOver([i \in DOMAIN PreBondQueue |->
                                     IF PreBondQueue[i].account = PartiallyFilled.account
                                     THEN PreBondQueue[i].payout ELSE 0], PaidInFull)

(* ---------------------------- bond creation --------------------------- *)
(* The bids the contraction that just ran converted, in the order it      *)
(* popped them.                                                           *)
ConsumedSeq == SelectSeq(last.popped, LAMBDA p : ~p.refunded)

(* The serial numbers of the bonds minted by the operation that just ran. *)
MintedIds == (Len(pre.fate) + 1) .. Len(fate)

(* C27: bonds are created only by contract_supply, one for each bid it    *)
(* consumes, for that bid's account and with expiration = block number at *)
(* creation + ExpirationPeriod; no other operation adds a bond to the     *)
(* BondQueue, and the bonds already queued keep account and expiration.   *)
C27_BondsOnlyFromContraction ==
    /\ MintedIds # {}
           => /\ \/ ContractionRan
                 \/ last.op = "contract_supply" /\ last.ok
              /\ Len(fate) = Len(pre.fate) + Len(ConsumedSeq)
    /\ \A j \in DOMAIN BondQueue :
           LET b == BondQueue[j]
           IN  IF b.id \in MintedIds
               THEN /\ b.account = ConsumedSeq[b.id - Len(pre.fate)].bid.account
                    /\ b.expiration = block_number + ExpirationPeriod
               ELSE \E i \in DOMAIN PreBondQueue :
                        /\ PreBondQueue[i].id = b.id
                        /\ PreBondQueue[i].account = b.account
                        /\ PreBondQueue[i].expiration = b.expiration
                        /\ PreBondQueue[i].payout >= b.payout

(* A contraction at a later block minted a bond for another account       *)
(* behind a bond that was already queued.                                 *)
C27_Witness ==
    /\ ContractionRan
    /\ Len(BondQueue) = 2
    /\ BondQueue[1].id \notin MintedIds
    /\ BondQueue[2].id \in MintedIds
    /\ BondQueue[1].account # BondQueue[2].account
    /\ BondQueue[1].expiration < BondQueue[2].expiration

(* ------------------------------ BondQueue ----------------------------- *)
Ids(queue) == [i \in DOMAIN queue |-> queue[i].id]

(* The serial numbers minted by the operation that just ran, in order. *)
MintedSeq == [i \in 1 .. Len(fate) - Len(pre.fate) |-> Len(pre.fate) + i]

(* How many bonds the pushes of the contraction that just ran left behind. *)
Overwritten ==
    Max(0, Len(PreBondQueue) + Len(MintedSeq) - (BondIndexMod - 1))

(* C28: the BondQueue never holds more than BondIndexMod - 1 bonds, its   *)
(* cursors wrap modulo BondIndexMod and it is empty iff start = end; a    *)
(* push of contract_supply onto a full queue advances start and drops     *)
(* exactly the oldest bond, unpaid, and the order of all other bonds is   *)
(* kept.                                                                  *)
C28_BondQueueBounded ==
    /\ Len(BondQueue) <= BondIndexMod - 1
    /\ bonds_range[1] \in 0 .. BondIndexMod - 1
    /\ bonds_range[2] \in 0 .. BondIndexMod - 1
    /\ BondQueue = <<>> <=> bonds_range[1] = bonds_range[2]
    /\ (ContractionRan \/ (last.op = "contract_supply" /\ last.ok))
           => LET all == Ids(PreBondQueue) \o MintedSeq
              IN  /\ Ids(BondQueue) = SubSeq(all, Overwritten + 1, Len(all))
                  /\ \A i \in DOMAIN PreBondQueue :
                         /\ i > Overwritten => PreBondQueue[i] = BondQueue[i - Overwritten]
                         /\ i <= Overwritten
                                => /\ fate[PreBondQueue[i].id] = "dropped"
                                   /\ balance[PreBondQueue[i].account]
                                          + EscrowOf(bond_bids, PreBondQueue[i].account)
                                      <= pre.balance[PreBondQueue[i].account]
                                          + EscrowOf(pre.bond_bids, PreBondQueue[i].account)
                  /\ \A k \in DOMAIN fate :
                         (fate[k] = "dropped" /\ pre.fate[k] = "queued")
                             => \E i \in 1 .. Overwritten : PreBondQueue[i].id = k

(* A push onto a full queue after the cursors had wrapped: the oldest     *)
(* bond was dropped and the other one moved to the head.                  *)
C28_Witness ==
    /\ ContractionRan
    /\ Len(PreBondQueue) = BondIndexMod - 1
    /\ Len(MintedSeq) = 1
    /\ pre.bonds_range[2] < pre.bonds_range[1]
    /\ BondQueue[1] = PreBondQueue[2]
    /\ fate[PreBondQueue[1].id] = "dropped"

(* ------------------------ partial consumption ------------------------- *)
(* What was left to remove when the contraction popped its i-th bid:      *)
(* every bid consumed before it was consumed whole.                       *)
RemainingAtPop(i) ==
    ContractAmount
      - SumOver([j \in DOMAIN last.popped |->
                    IF j < i /\ ~last.popped[j].refunded
                    THEN payment(last.popped[j].bid) ELSE 0], DOMAIN last.popped)

(* The i-th popped bid was consumed in part. *)
PartlyConsumed(i) ==
    /\ i \in ConsumedBids
    /\ payment(last.popped[i].bid) >= RemainingAtPop(i)

RemoveAt(seq, k) == SubSeq(seq, 1, k - 1) \o SubSeq(seq, k + 1, Len(seq))

(* C29: when contract_supply consumes a bid in part for `remaining`       *)
(* coins, the quantity removed is floor(remaining * accuracy / price); a  *)
(* bond with exactly that payout is minted, the bid keeps account and     *)
(* price with its quantity reduced by that amount, and it is re-inserted  *)
(* into the BidBook iff the reduced quantity is > 0.                      *)
C29_PartialConsumption ==
    (ContractionRan \/ (last.op = "contract_supply" /\ last.ok))
        => \A i \in DOMAIN last.popped :
               PartlyConsumed(i)
                   => LET bid == last.popped[i].bid
                          book == last.popped[i].book
                          removed == (RemainingAtPop(i) * PerbillAccuracy) \div bid.price
                          reduced == Bid(bid.account, bid.price, bid.quantity - removed)
                      IN  /\ i = Len(last.popped)
                          /\ removed <= bid.quantity
                          /\ BondQueue # <<>>
                          /\ BondQueue[Len(BondQueue)].id = Len(fate)
                          /\ BondQueue[Len(BondQueue)].payout = removed
                          /\ BondQueue[Len(BondQueue)].account = bid.account
                          /\ IF reduced.quantity > 0
                             THEN \E k \in DOMAIN bond_bids :
                                      /\ bond_bids[k] = reduced
                                      /\ RemoveAt(bond_bids, k) = book
                             ELSE bond_bids = book

(* A bid below 100% consumed in part while another bid waited: more       *)
(* quantity than coins was removed and the rest of the bid went back into *)
(* the book.                                                              *)
C29_Witness ==
    /\ last.op = "contract_supply" /\ last.ok
    /\ \E i \in DOMAIN last.popped :
           /\ PartlyConsumed(i)
           /\ BondQueue[Len(BondQueue)].payout > RemainingAtPop(i)
           /\ Len(bond_bids) = Len(last.popped[i].book) + 1
           /\ last.popped[i].book # <<>>

(* ------------------------------ refunds ------------------------------- *)
ContractSupplyRan == ContractionRan \/ (last.op = "contract_supply" /\ last.ok)

RefundedBids == {i \in DOMAIN last.popped : last.popped[i].refunded}

(* The payments of the bids of account a that the contraction refunded. *)
RefundsTo(a) ==
    SumOver([i \in DOMAIN last.popped |->
                IF i \in RefundedBids /\ last.popped[i].bid.account = a
                THEN payment(last.popped[i].bid) ELSE 0], DOMAIN last.popped)

(* C30: a bid on which remove_coins overflows or underflows while         *)
(* contract_supply is consuming it in part is refunded in full to its     *)
(* account; no bond is minted for it, nothing is counted as burned for    *)
(* it, it is not returned to the BidBook, and the loop goes on with the   *)
(* next-highest bid.                                                      *)
C30_FailedRemovalRefunds ==
    ContractSupplyRan =>
        /\ \A i \in RefundedBids :
               LET bid == last.popped[i].bid
                   book == last.popped[i].book
                   rem == RemainingAtPop(i)
               IN  /\ payment(bid) >= rem
                   /\ \/ (rem * PerbillAccuracy) \div bid.price > bid.quantity
                      \/ (rem * PerbillAccuracy) \div Gcd(PerbillAccuracy, bid.price) > CoinsMax
                   /\ \E e \in DOMAIN last.events :
                          last.events[e] = <<"RefundedBid", bid.account, payment(bid)>>
                   /\ IF i < Len(last.popped)
                      THEN /\ book # <<>>
                           /\ last.popped[i + 1].bid = book[Len(book)]
                           /\ last.popped[i + 1].book = SubSeq(book, 1, Len(book) - 1)
                           /\ RemainingAtPop(i + 1) = rem
                      ELSE book = <<>> /\ bond_bids = <<>>
        /\ \A a \in Accounts : balance[a] = pre.balance[a] + RefundsTo(a)
        /\ Len(MintedSeq) = Len(ConsumedSeq)
        /\ Burned = IF \E i \in DOMAIN last.popped : PartlyConsumed(i)
                    THEN ContractAmount
                    ELSE SumOver([i \in DOMAIN last.popped |->
                                     IF i \in ConsumedBids
                                     THEN payment(last.popped[i].bid) ELSE 0],
                                 DOMAIN last.popped)
        /\ coin_supply = pre.coin_supply - Burned

(* ---------------------------- bond payouts ---------------------------- *)
(* The NewBond events of the operation that just ran, in minting order. *)
NewBondEventsOf == SelectSeq(last.events, LAMBDA e : e[1] = "NewBond")

(* The position in last.popped of the k-th bid that was consumed. *)
ConsumedIndex(k) ==
    CHOOSE i \in ConsumedBids : Cardinality({j \in ConsumedBids : j <= i}) = k

(* The coins burned for the i-th popped bid: what was left to remove when *)
(* it was consumed in part, its payment when it was consumed whole.       *)
BurnedFor(i) ==
    IF PartlyConsumed(i) THEN RemainingAtPop(i) ELSE payment(last.popped[i].bid)

(* C31: every bond minted by contract_supply has a payout >= 1 and >= the *)
(* coins burned from the bid it was converted from, so that a bondholder  *)
(* is never promised less than was burned for the bond.                   *)
C31_PayoutCoversBurn ==
    ContractSupplyRan =>
        /\ Len(NewBondEventsOf) = Cardinality(ConsumedBids)
        /\ \A k \in DOMAIN NewBondEventsOf :
               LET i == ConsumedIndex(k)
                   payout == NewBondEventsOf[k][3]
               IN  /\ NewBondEventsOf[k][2] = last.popped[i].bid.account
                   /\ payout >= 1
                   /\ payout >= BurnedFor(i)
                   /\ last.popped[i].bid.price <= FromPercent(100)
        /\ \A j \in DOMAIN BondQueue :
               BondQueue[j].id \in MintedIds
                   => BondQueue[j].payout
                          = NewBondEventsOf[BondQueue[j].id - Len(pre.fate)][3]
        /\ Burned = SumOver([i \in DOMAIN last.popped |->
                                IF i \in ConsumedBids THEN BurnedFor(i) ELSE 0],
                            DOMAIN last.popped)

(* A contraction consumed one bid below 100% whole and a second one in    *)
(* part: both bonds promise more than was burned for them.                *)
C31_Witness ==
    /\ ContractionRan
    /\ Len(NewBondEventsOf) = 2
    /\ ~PartlyConsumed(ConsumedIndex(1))
    /\ PartlyConsumed(ConsumedIndex(2))
    /\ NewBondEventsOf[1][3] > BurnedFor(ConsumedIndex(1))
    /\ NewBondEventsOf[2][3] > BurnedFor(ConsumedIndex(2))

LowestBidIntoFullBook ==
    /\ last.op = "bid_for_bond"
    /\ Len(pre.bond_bids) = MaximumBids
    /\ last.args.price <= FromPercent(100)
    /\ last.args.price > MINIMUM_BOND_PRICE
    /\ last.args.quantity >= BaseUnit
    /\ pre.balance[last.args.who] >= payment(NewBid)
    /\ \A i \in 1 .. Len(pre.bond_bids) : last.args.price < pre.bond_bids[i].price

C33_LowestBidEvictsItself ==
    LowestBidIntoFullBook
        => /\ last.ok
           /\ last.events = << <<"RefundedBid", last.args.who, payment(NewBid)>>,
                               <<"NewBid", last.args.who, last.args.price, last.args.quantity>> >>
           /\ bond_bids = pre.bond_bids
           /\ balance = pre.balance
           /\ StoresUnchanged

(* The bidder is not one of the accounts already in the full book and     *)
(* pays a positive amount for the bid that is evicted at once.            *)
C33_Witness ==
    /\ LowestBidIntoFullBook
    /\ last.ok
    /\ payment(NewBid) > 0
    /\ \A i \in 1 .. Len(pre.bond_bids) : pre.bond_bids[i].account # last.args.who

(* The bond with serial number id is in the BondQueue. *)
Queued(id) == \E k \in DOMAIN BondQueue : BondQueue[k].id = id

(* The step of on_initialize in which on_block runs a successful          *)
(* expansion by a positive amount.                                         *)
PositiveExpansion ==
    \E price \in LiveOraclePrices :
        /\ price < BaseUnit
        /\ \E r \in on_block_with_price(CurrentStore, block_number + 1, price) :
              /\ r.ok
              /\ \E i \in DOMAIN r.events :
                     r.events[i][1] = "ExpandedSupply" /\ r.events[i][2] > 0
              /\ CommitLive(r, "on_block", [block |-> block_number + 1, price |-> price],
                            block_number + 1)

(* Successful expansions with a positive amount keep occurring. *)
KeepExpanding == []<><<PositiveExpansion>>_vars

(* What the fate of a bond says agrees with the BondQueue, and a bond that *)
(* left the queue did so in one of the ways listed.                        *)
FatesAmong(ways) ==
    \A id \in 1 .. LiveIds :
        /\ Queued(id) <=> fate[id] = "queued"
        /\ ~Queued(id) => fate[id] \in ways \cup {"unused"}

(* A positive expansion that finds a bond at the head of the BondQueue     *)
(* removes it, paid in full or expired, or pays a part of it.              *)
HeadAdvances ==
    (PositiveExpansion /\ BondQueue # <<>>)
        => \A head \in {BondQueue[1]} :
               \/ ~Queued(head.id)' /\ fate'[head.id] \in {"paid", "expired"}
               \/ /\ BondQueue' # <<>>
                  /\ BondQueue'[1].id = head.id
                  /\ BondQueue'[1].payout < head.payout

(* C34 as stated: if successful expansions with a positive amount keep     *)
(* occurring, every bond in the BondQueue is eventually removed from it,   *)
(* and every bond removed was paid in full or discarded as expired.        *)
C34_RemovedPaidOrExpired ==
    KeepExpanding
        => /\ \A id \in 1 .. LiveIds : Queued(id) ~> ~Queued(id)
           /\ []FatesAmong({"paid", "expired"})

(* C34: if successful expansions with a positive amount keep occurring,    *)
(* every bond in the BondQueue is eventually removed from it: paid in      *)
(* full, discarded as expired, or overwritten unpaid by a push onto the    *)
(* full queue; no bond stays in the queue forever, and each such expansion *)
(* removes the bond at the head or lowers its payout.                      *)
C34_EveryBondLeaves ==
    /\ KeepExpanding => \A id \in 1 .. LiveIds : Queued(id) ~> ~Queued(id)
    /\ []FatesAmong({"paid", "expired", "dropped"})
    /\ [][HeadAdvances]_vars

(* One expansion discarded the expired bond at the head and paid the bond  *)
(* behind it in full.                                                      *)
C34_Witness ==
    /\ runtime = "live"
    /\ BondQueue = <<>>
    /\ \E id \in 1 .. LiveIds : fate[id] = "expired"
    /\ \E id \in 1 .. LiveIds : fate[id] = "paid"

(* C35: transfer, bid_for_bond, cancel_bids_at_or_below and               *)
(* cancel_all_bids never change CoinSupply, Shares or the BondQueue;      *)
(* after initialization CoinSupply changes only in on_block on a          *)
(* qualifying block, and Shares never changes again.                      *)
C35_SupplySharesBondsFrame ==
    /\ last.op \in {"transfer", "bid_for_bond", "cancel_bids_at_or_below", "cancel_all_bids"}
           => /\ coin_supply = pre.coin_supply
              /\ shares = pre.shares
              /\ bonds = pre.bonds
              /\ bonds_range = pre.bonds_range
              /\ BondQueue = PreBondQueue
    /\ pre.initialized
           => /\ coin_supply # pre.coin_supply => QualifyingBlock
              /\ shares = pre.shares

(* A cancellation refunded a bid while bonds were queued and CoinSupply   *)
(* had already been moved away from InitialSupply by on_block.            *)
C35_Witness ==
    /\ last.op \in {"cancel_bids_at_or_below", "cancel_all_bids"}
    /\ last.ok
    /\ HasEvent("RefundedBid")
    /\ BondQueue # <<>>
    /\ coin_supply # InitialSupply
    /\ initialized

====
